---- MODULE Spec2Model ----
(***************************************************************************)
(* A model of heatcontrol.py: the periodic decision engine that computes   *)
(* the hot-water target and the heating curve/parallel of a heat pump from *)
(* spot prices, schedule rules, overrides and an indoor reading, and then  *)
(* converges the controller registers 0208, 2205 and 0207 to them.         *)
(*                                                                         *)
(* Units.  Python floats are modelled by exact integers:                   *)
(*   - prices are integers; cutpoints are kept multiplied by 1000 so that  *)
(*     the factors (100 + cutter)/100 and 1.4 stay exact;                  *)
(*   - the time of day comp_hour() is kept in minutes (t = 60*hour + min); *)
(*     the hour fields of the configuration are whole hours;               *)
(*   - indoor temperatures (opttemp, reading) are in tenths of a degree;   *)
(*   - hot-water temperatures are in hundredths of a degree, registers in  *)
(*     tenths (raw register values).                                       *)
(***************************************************************************)
EXTENDS Integers, Sequences, FiniteSets, TLC

VARIABLES
    config,        \* allconfig["config"]: the Config of this behaviour
    override,      \* allconfig["override"]: [present, list], present = the key exists
    all_prices,    \* what get_prices returns: a sequence of Price
    low_list,      \* the low_prices argument of a water_prep_needed call
    t,             \* comp_hour(), in minutes since midnight
    dow,           \* isoweekday of today, 1..7
    now,           \* datetime.now().timestamp(), on the scale of the overrides
    netatmo,       \* the sensor service: db caches, service answers, reading
    db,            \* the dbm file: which keys are present
    hc,            \* the controller's registers "0208", "2205", "0207"
    pc,            \* the position of the run in __main__
    run,           \* 1 for the first invocation, 2 for the one after it
    apply,         \* (apply, correct_temp, c) of __main__
    correct_temp,
    c,
    opttemp,
    read,          \* the last /api/alldata answer a setter took (hc of set_*)
    current_temp,  \* get_current_water_temp(url), in hundredths
    writes,        \* the /api/set requests that succeeded in this run, in order
    err,           \* the stage whose exception ended this run, "" if none
    hc0,           \* the controller's registers when this run started
    first,         \* the outcome of the first run, once the second has started
    out            \* the value returned by the function a function spec applies

vars == <<config, override, all_prices, low_list, t, dow, now, netatmo, db, hc, pc, run,
          apply, correct_temp, c, opttemp, read, current_temp, writes, err, hc0,
          first, out>>

----------------------------------------------------------------------------
(* Arithmetic helpers *)

\* Python's int() of the quotient a/b (b > 0): truncation towards zero.
Trunc(a, b) == IF a >= 0 THEN a \div b ELSE -((-a) \div b)

Min(S) == CHOOSE x \in S : \A y \in S : x <= y

Range(s) == {s[i] : i \in 1..Len(s)}

----------------------------------------------------------------------------
(* The defaults of the configuration *)

Default_cutter == 60
Default_maxdiff == 50
Default_bedtime == 22
Default_wwcooldown == 2
Default_lowprice == 35
Default_highprice == 80
Default_blockprice == 150
Default_heatdefaultcurve == 22
Default_heatdefaultpara == 0
Default_heatcheappara == 20
Default_heatexpensivepara == -40
Default_heatcheapcurve == 3
Default_heatexpensivecurve == -4
\* temperatures in tenths of a degree (20.5, 19.8, 21.0, 20.0)
Default_opttemp == 205
Default_tempexpensive == 198
Default_tempcheap == 210
Default_tempdefault == 200
\* hot-water temperatures in hundredths of a degree (54, 42, 35)
Default_wwcheaptemp == 5400
Default_wwdefaulttemp == 4200
Default_wwexpensivetemp == 3500

defaults ==
    [cutter |-> Default_cutter, maxdiff |-> Default_maxdiff,
     bedtime |-> Default_bedtime, wwcooldown |-> Default_wwcooldown,
     lowprice |-> Default_lowprice, highprice |-> Default_highprice,
     blockprice |-> Default_blockprice,
     noneed |-> <<>>, prepww |-> <<>>, tempadjustments |-> <<>>,
     heatdefaultcurve |-> Default_heatdefaultcurve,
     heatdefaultpara |-> Default_heatdefaultpara,
     heatcheappara |-> Default_heatcheappara,
     heatexpensivepara |-> Default_heatexpensivepara,
     heatcheapcurve |-> Default_heatcheapcurve,
     heatexpensivecurve |-> Default_heatexpensivecurve,
     opttemp |-> Default_opttemp, tempexpensive |-> Default_tempexpensive,
     tempcheap |-> Default_tempcheap, tempdefault |-> Default_tempdefault,
     wwcheaptemp |-> Default_wwcheaptemp,
     wwdefaulttemp |-> Default_wwdefaulttemp,
     wwexpensivetemp |-> Default_wwexpensivetemp]

----------------------------------------------------------------------------
(* Prices.  A Price is [hour, today, value]: the hour of its timestamp,    *)
(* whether its day is today's, and its value.                              *)

Price(h, d, v) == [hour |-> h, today |-> d, value |-> v]

\* price_apply: the point belongs to today
price_apply(x, cfg) == x.today

\* int(t) of the continuous hour
IntHour(tm) == tm \div 60

\* list.sort(key=value): a stable insertion of x into a sorted list
RECURSIVE InsertByValue(_, _)
InsertByValue(x, s) ==
    IF s = <<>> THEN <<x>>
    ELSE IF s[Len(s)].value <= x.value THEN Append(s, x)
    ELSE Append(InsertByValue(x, SubSeq(s, 1, Len(s) - 1)), s[Len(s)])

RECURSIVE SortByValue(_)
SortByValue(p) ==
    IF p = <<>> THEN <<>>
    ELSE InsertByValue(p[Len(p)], SortByValue(SubSeq(p, 1, Len(p) - 1)))

\* the low cutpoint of filter_prices_low, times 1000
LowCutpoint(minp, cfg) ==
    IF minp < 0 THEN 1000 * cfg.maxdiff
    ELSE Min({10 * minp * (100 + cfg.cutter),
              1000 * (minp + cfg.maxdiff),
              1000 * cfg.blockprice})

\* the high cutpoint of filter_prices_high, times 1000
HighCutpoint(minp, cfg) ==
    IF minp < 0 THEN 1000 * cfg.maxdiff
    ELSE Min({minp * (1000 + 14 * cfg.cutter),
              1000 * minp + 1400 * cfg.maxdiff,
              1000 * cfg.blockprice,
              1000 * cfg.highprice})

\* the cutpoint test alone, without the lowprice floor
IsLowCutOnly(x, minp, cfg) == 1000 * x.value < LowCutpoint(minp, cfg)

\* is x one of the points filter_prices_low keeps
IsLow(x, minp, cfg) ==
    1000 * x.value < LowCutpoint(minp, cfg) \/ x.value < cfg.lowprice

\* is x one of the points filter_prices_high keeps
\* the comparison turned round
IsHighBelow(x, minp, cfg) == 1000 * x.value < HighCutpoint(minp, cfg)

IsHigh(x, minp, cfg) == 1000 * x.value > HighCutpoint(minp, cfg)

\* filter_prices_low on a non-empty list (p[0] of an empty list raises)
filter_prices_low(p, cfg) ==
    LET s == SortByValue(p)
        minp == s[1].value
    IN SelectSeq(s, LAMBDA x : IsLow(x, minp, cfg))

\* filter_prices_high on a non-empty list
filter_prices_high(p, cfg) ==
    LET s == SortByValue(p)
        minp == s[1].value
    IN SelectSeq(s, LAMBDA x : IsHigh(x, minp, cfg))

\* today's points of the fetched series, in the order fetched
TodayPrices(ap, cfg) == SelectSeq(ap, LAMBDA x : price_apply(x, cfg))

\* "for p in l: if p.hour == int(t)": the current hour is one of l's
HourIn(l, tm) == \E i \in 1..Len(l) : l[i].hour = IntHour(tm)

----------------------------------------------------------------------------
(* PrepPlanner: water_prep_needed.  A Prep is                              *)
(* [needhour, earliest, duration, preptime], in whole hours; the result is *)
(* <<authoritative, heat>>.                                                *)

Prep(n, e, d, p) == [needhour |-> n, earliest |-> e, duration |-> d, preptime |-> p]

\* some point of the series at the current hour costs more than blockprice
Blocked(ap, tm, cfg) ==
    \E i \in 1..Len(ap) : ap[i].hour = IntHour(tm) /\ ap[i].value > cfg.blockprice

\* the points of low_prices from the current hour up to needhour
earlierprices(low_prices, needhour, tm) ==
    SelectSeq(low_prices, LAMBDA x : x.hour < needhour /\ x.hour >= IntHour(tm))

\* the branch "no low price before needhour, preptime reached": the return
\* (True, False) is a statement of the loop over all_prices, not of its if,
\* so the first point of a non-empty series ends the loop
PrepAtPreptime(ap, tm, cfg) ==
    IF ap # <<>> THEN <<TRUE, FALSE>> ELSE <<TRUE, TRUE>>

water_prep_needed(low_prices, ap, needhour, earliest, duration, preptime, cfg, tm) ==
    IF tm > 60 * (needhour + duration) THEN <<FALSE, FALSE>>
    ELSE IF tm < 60 * earliest THEN <<FALSE, FALSE>>
    ELSE IF tm >= 60 * needhour
         THEN (IF Blocked(ap, tm, cfg) THEN <<TRUE, FALSE>> ELSE <<TRUE, TRUE>>)
    ELSE LET e == earlierprices(low_prices, needhour, tm)
         IN IF e = <<>>
            THEN (IF tm >= 60 * (needhour - preptime)
                  THEN PrepAtPreptime(ap, tm, cfg)
                  ELSE <<TRUE, FALSE>>)
            ELSE IF e[1].hour # IntHour(tm) THEN <<TRUE, FALSE>>
            ELSE <<TRUE, TRUE>>

----------------------------------------------------------------------------
(* ScheduleRules: check_noneed and get_temp_adjustment.  A window is       *)
(* [start, end, weekdays(, adjustment)] with start and end in whole hours  *)
(* and weekdays the set of isoweekday digits of its string.                *)

NoNeed(s, e, w) == [start |-> s, end |-> e, weekdays |-> w]

TempAdjustment(s, e, w, a) == [start |-> s, end |-> e, weekdays |-> w, adjustment |-> a]

check_noneed(nn, tm, d) ==
    d \in nn.weekdays /\ 60 * nn.start <= tm /\ 60 * nn.end >= tm

RECURSIVE AdjustmentFrom(_, _, _, _)
AdjustmentFrom(l, i, tm, d) ==
    IF i > Len(l) THEN 0
    ELSE IF d \in l[i].weekdays /\ 60 * l[i].start <= tm /\ 60 * l[i].end >= tm
         THEN l[i].adjustment
    ELSE AdjustmentFrom(l, i + 1, tm, d)

get_temp_adjustment(cfg, tm, d) == AdjustmentFrom(cfg.tempadjustments, 1, tm, d)

----------------------------------------------------------------------------
(* SetpointCalculator *)

\* "return False" of get_water_temp: False is 0 wherever the caller uses it
\* (False == 0.0, int(False * 10) == 0)
NoHeat == 0

\* the loop ended by the first window whose result is authoritative
RECURSIVE PrepLoopFirstAuth(_, _, _, _, _)
PrepLoopFirstAuth(cfg, prices, ap, tm, i) ==
    IF i > Len(cfg.prepww) THEN 0
    ELSE LET w == cfg.prepww[i]
             r == water_prep_needed(prices, ap, w.needhour, w.earliest,
                                    w.duration, w.preptime, cfg, tm)
         IN IF r[1] THEN (IF r[2] THEN i ELSE 0)
            ELSE PrepLoopFirstAuth(cfg, prices, ap, tm, i + 1)

\* the loop over config["prepww"] from window i on: the index of the first
\* window whose result is (True, True), 0 when the loop ends without one
RECURSIVE PrepLoop(_, _, _, _, _)
PrepLoop(cfg, prices, ap, tm, i) ==
    IF i > Len(cfg.prepww) THEN 0
    ELSE LET w == cfg.prepww[i]
             r == water_prep_needed(prices, ap, w.needhour, w.earliest,
                                    w.duration, w.preptime, cfg, tm)
         IN IF r[1] /\ r[2] THEN i ELSE PrepLoop(cfg, prices, ap, tm, i + 1)

\* the loop over config["noneed"] from window i on
RECURSIVE NoNeedLoop(_, _, _, _)
NoNeedLoop(cfg, tm, d, i) ==
    IF i > Len(cfg.noneed) THEN FALSE
    ELSE IF check_noneed(cfg.noneed[i], tm, d) THEN TRUE
    ELSE NoNeedLoop(cfg, tm, d, i + 1)

\* get_water_temp raises (p[0] of an empty list) when it gets as far as the
\* price filters and today has no price
PastBedtime(cfg, tm) == tm >= 60 * (cfg.bedtime - cfg.wwcooldown)

\* get_water_temp with the prep loop before the no-need loop
get_water_temp_prep_first(cfg, ap, tm, d) ==
    IF PastBedtime(cfg, tm) THEN NoHeat
    ELSE LET prices == TodayPrices(ap, cfg)
             prices_low == filter_prices_low(prices, cfg)
             prices_high == filter_prices_high(prices, cfg)
             sorted == SortByValue(prices)
         IN IF PrepLoop(cfg, sorted, ap, tm, 1) # 0 THEN cfg.wwcheaptemp
            ELSE IF NoNeedLoop(cfg, tm, d, 1) THEN cfg.wwexpensivetemp
            ELSE IF HourIn(prices_low, tm) THEN cfg.wwcheaptemp
            ELSE IF HourIn(prices_high, tm) THEN cfg.wwexpensivetemp
            ELSE cfg.wwdefaulttemp

\* get_water_temp after get_prices, today's series not empty; prices is the
\* list filter_prices_low has sorted in place when the prep loop gets it
get_water_temp(cfg, ap, tm, d) ==
    IF PastBedtime(cfg, tm) THEN NoHeat
    ELSE LET prices == TodayPrices(ap, cfg)
             prices_low == filter_prices_low(prices, cfg)
             prices_high == filter_prices_high(prices, cfg)
             sorted == SortByValue(prices)
         IN IF NoNeedLoop(cfg, tm, d, 1) THEN cfg.wwexpensivetemp
            ELSE IF PrepLoop(cfg, sorted, ap, tm, 1) # 0 THEN cfg.wwcheaptemp
            ELSE IF HourIn(prices_low, tm) THEN cfg.wwcheaptemp
            ELSE IF HourIn(prices_high, tm) THEN cfg.wwexpensivetemp
            ELSE cfg.wwdefaulttemp

HeatValues(cu, pa) == [curve |-> cu, parallel |-> pa]

\* get_heat_curve, today's series not empty; the curve and para fields of
\* the configuration are whole numbers, which int() leaves as they are
get_heat_curve(cfg, ap, tm) ==
    LET prices == TodayPrices(ap, cfg)
        base == HeatValues(cfg.heatdefaultcurve, cfg.heatdefaultpara)
    IN IF HourIn(filter_prices_low(prices, cfg), tm)
       THEN HeatValues(base.curve + cfg.heatcheapcurve,
                       base.parallel + cfg.heatcheappara)
       ELSE IF HourIn(filter_prices_high(prices, cfg), tm)
       THEN HeatValues(base.curve + cfg.heatexpensivecurve,
                       base.parallel + cfg.heatexpensivepara)
       ELSE base

\* get_opttemp, today's series not empty, in tenths of a degree
get_opttemp(cfg, ap, tm) ==
    LET prices == TodayPrices(ap, cfg)
    IN IF HourIn(filter_prices_low(prices, cfg), tm) THEN cfg.tempcheap
       ELSE IF HourIn(filter_prices_high(prices, cfg), tm) THEN cfg.tempexpensive
       ELSE cfg.tempdefault

----------------------------------------------------------------------------
(* FeedbackCorrector: get_heat_curve_from_temp.  natemps is what           *)
(* get_netatmo_temps returned: [uppe, temperature, age] with uppe whether  *)
(* the module "uppe" has a reading, temperature in hundredths of a degree  *)
(* and age = nu - natemps["uppe"]["time"] in seconds.  opt is in tenths.   *)

NATemps(u, temp, age) == [uppe |-> u, temperature |-> temp, age |-> age]

NoData == NATemps(FALSE, 0, 0)

MaxAge == 3600

\* int(opttemp - 20) * 10
ParallelFromTemp(opt) == Trunc(opt - 200, 10) * 10

\* int(10 * difftemp), difftemp = opttemp - temperature
CurveFromDiff(opt, temp) == Trunc(10 * opt - temp, 10)

get_heat_curve_from_temp(cv, opt, natemps) ==
    IF natemps.uppe /\ natemps.age < MaxAge
    THEN HeatValues(cv.curve + CurveFromDiff(opt, natemps.temperature),
                    ParallelFromTemp(opt))
    ELSE cv

----------------------------------------------------------------------------
(* OverrideResolver: override_active.  An Override is                      *)
(* [start, end, wwtemp, curve, para]; start and end are the instants their *)
(* strings denote, or Unparseable when dateutil raises on them; wwtemp,    *)
(* curve and para are in hundredths.                                       *)

Unparseable == -1

Override(s, e, w, cu, pa) ==
    [start |-> s, end |-> e, wwtemp |-> w, curve |-> cu, para |-> pa]

\* Matches with the bounds of the window excluded
MatchesStrict(p, nw) ==
    /\ p.start # Unparseable
    /\ p.end # Unparseable
    /\ p.start < nw /\ nw < p.end

\* the body of the try block returns for this entry
Matches(p, nw) ==
    /\ p.start # Unparseable
    /\ p.end # Unparseable
    /\ p.start <= nw /\ nw <= p.end

\* the index of the entry override_active returns, from entry i on; 0 if none
RECURSIVE OverrideLoop(_, _, _)
OverrideLoop(l, nw, i) ==
    IF i > Len(l) THEN 0
    ELSE IF Matches(l[i], nw) THEN i
    ELSE OverrideLoop(l, nw, i + 1)

\* (active, wwtemp, HeatValues) of override_active on a document that has
\* an override list; int(x * 10) of a value in hundredths
override_active(l, nw) ==
    LET i == OverrideLoop(l, nw, 1)
    IN IF i = 0 THEN <<FALSE, 0, HeatValues(0, 0)>>
       ELSE <<TRUE, l[i].wwtemp,
              HeatValues(Trunc(l[i].curve, 10), Trunc(l[i].para, 10))>>

----------------------------------------------------------------------------
(* The controller: /api/alldata and /api/set.  Registers hold raw values   *)
(* (tenths).                                                               *)

Registers(ww, cu, pa) == [r0208 |-> ww, r2205 |-> cu, r0207 |-> pa]

\* hc["0208"] / 10, in hundredths of a degree
get_current_water_temp(h) == 10 * h.r0208

\* desired = int(ns * 10) of set_water_temp, ns in hundredths
Desired0208(ns) == Trunc(ns, 10)

\* a set request whatever the register holds
NeedsSetAlways(readback, desired) == TRUE

\* "if hc[idx] != desired": the guard of every /api/set request
NeedsSet(readback, desired) == readback # desired

\* one successful /api/set request: the register, the value read back
\* before it, and the value set
SetRequest(r, old, v) == [idx |-> r, readback |-> old, val |-> v]

----------------------------------------------------------------------------
(* The sensor service.  netatmo is [tokenOk, dataOk, natemps]: whether the *)
(* token refresh and the getstationsdata request answer ok, and the        *)
(* readings the service (or the cache filled from it) holds.  db is        *)
(* [prices, natemps, natoken]: today's price key is present, a recent      *)
(* natemps entry is present, and the cached token ("none", "expired" when  *)
(* expire_at < time.time(), "valid" otherwise).                            *)

\* get_netatmo_token returns the cached token without a refresh
TokenFromCache(d) == d.natoken = "expired"

\* get_netatmo_temps raises: it needs a token, must refresh it, and the
\* refresh answers not ok
NetatmoRaises(d, na) == ~d.natemps /\ ~TokenFromCache(d) /\ ~na.tokenOk

\* what get_netatmo_temps returns when it does not raise
get_netatmo_temps(d, na) ==
    IF d.natemps THEN na.natemps
    ELSE IF ~na.dataOk THEN NoData
    ELSE na.natemps

\* the dbm file after get_netatmo_temps returned
DbAfterNetatmo(d, na) ==
    IF d.natemps THEN d
    ELSE [d EXCEPT !.natoken = IF TokenFromCache(d) THEN @ ELSE "valid",
                   !.natemps = na.dataOk]

----------------------------------------------------------------------------
(* __main__: one run, statement by statement *)

\* __main__ with set_curve called before get_current_water_temp
AfterCurveFirst(s) ==
    CASE s = "get_config" -> "override_active"
      [] s = "override_active" -> "get_water_temp"
      [] s = "get_water_temp" -> "get_heat_curve"
      [] s = "get_heat_curve" -> "get_opttemp"
      [] s = "get_opttemp" -> "get_heat_curve_from_temp"
      [] s = "get_heat_curve_from_temp" -> "set_curve"
      [] s = "set_curve" -> "set_2205"
      [] s = "set_2205" -> "set_0207"
      [] s = "set_0207" -> "get_current_water_temp"
      [] s = "get_current_water_temp" -> "compare"
      [] s = "compare" -> "set_water_temp"
      [] s = "set_water_temp" -> "set_0208"
      [] s = "set_0208" -> "done"

\* the statement that follows stage s when s returns
After(s) ==
    CASE s = "get_config" -> "override_active"
      [] s = "override_active" -> "get_water_temp"
      [] s = "get_water_temp" -> "get_heat_curve"
      [] s = "get_heat_curve" -> "get_opttemp"
      [] s = "get_opttemp" -> "get_heat_curve_from_temp"
      [] s = "get_heat_curve_from_temp" -> "get_current_water_temp"
      [] s = "get_current_water_temp" -> "set_curve"
      [] s = "set_curve" -> "set_2205"
      [] s = "set_2205" -> "set_0207"
      [] s = "set_0207" -> "compare"
      [] s = "compare" -> "set_water_temp"
      [] s = "set_water_temp" -> "set_0208"
      [] s = "set_0208" -> "done"

inputs == <<config, override, all_prices, low_list, t, dow, now, netatmo>>

\* the exception of stage s ends the run
Raise(s) == pc' = "aborted" /\ err' = s

\* the locals of __main__ before its first statement
Fresh ==
    /\ apply = FALSE /\ correct_temp = 0 /\ c = HeatValues(0, 0) /\ opttemp = 0
    /\ read = Registers(0, 0, 0) /\ current_temp = 0 /\ writes = <<>> /\ err = ""

\* get_config: the fetch answers 200, or not; config and override are the
\* document after its missing fields were filled from defaults
GetConfig ==
    /\ pc = "get_config"
    /\ \/ pc' = After("get_config") /\ err' = err
       \/ Raise("get_config")
    /\ UNCHANGED <<inputs, db, hc, run, apply, correct_temp, c, opttemp, read,
                   current_temp, writes, hc0, first, out>>

\* (apply, correct_temp, c) = override_active(allconfig); without an
\* "override" key the function returns a pair and the assignment raises
OverrideActive ==
    /\ pc = "override_active"
    /\ IF ~override.present
       THEN Raise("override_active") /\ UNCHANGED <<apply, correct_temp, c>>
       ELSE LET r == override_active(override.list, now)
            IN /\ apply' = r[1] /\ correct_temp' = r[2] /\ c' = r[3]
               /\ err' = err
               /\ pc' = IF r[1] THEN After("get_heat_curve_from_temp")
                        ELSE After("override_active")
    /\ UNCHANGED <<inputs, db, hc, run, opttemp, read, current_temp, writes,
                   hc0, first, out>>

\* get_prices: the key of today is in db, or the fetch answers 200 and
\* stores it
PricesFetched == db' = [db EXCEPT !.prices = TRUE]

\* get_prices raises: no key of today and the fetch fails
PricesFail(s) == ~db.prices /\ Raise(s) /\ db' = db

\* correct_temp = get_water_temp(db, config)
GetWaterTemp ==
    /\ pc = "get_water_temp"
    /\ \/ /\ PastBedtime(config, t)
          /\ correct_temp' = get_water_temp(config, all_prices, t, dow)
          /\ pc' = After("get_water_temp") /\ err' = err /\ db' = db
       \/ /\ ~PastBedtime(config, t)
          /\ PricesFail("get_prices")
          /\ correct_temp' = correct_temp
       \/ /\ ~PastBedtime(config, t)
          /\ PricesFetched
          /\ IF TodayPrices(all_prices, config) = <<>>
             THEN Raise("filter_prices") /\ correct_temp' = correct_temp
             ELSE /\ correct_temp' = get_water_temp(config, all_prices, t, dow)
                  /\ pc' = After("get_water_temp") /\ err' = err
    /\ UNCHANGED <<inputs, hc, run, apply, c, opttemp, read, current_temp,
                   writes, hc0, first, out>>

\* c = get_heat_curve(db, config)
GetHeatCurve ==
    /\ pc = "get_heat_curve"
    /\ \/ PricesFail("get_prices") /\ c' = c
       \/ /\ PricesFetched
          /\ IF TodayPrices(all_prices, config) = <<>>
             THEN Raise("filter_prices") /\ c' = c
             ELSE /\ c' = get_heat_curve(config, all_prices, t)
                  /\ pc' = After("get_heat_curve") /\ err' = err
    /\ UNCHANGED <<inputs, hc, run, apply, correct_temp, opttemp, read,
                   current_temp, writes, hc0, first, out>>

\* opttemp = get_opttemp(db, config) + get_temp_adjustment(config); the
\* prices are in db since get_heat_curve and today has a price
GetOptTemp ==
    /\ pc = "get_opttemp"
    /\ opttemp' = get_opttemp(config, all_prices, t)
                  + get_temp_adjustment(config, t, dow)
    /\ pc' = After("get_opttemp")
    /\ UNCHANGED <<inputs, db, hc, run, apply, correct_temp, c, read,
                   current_temp, writes, err, hc0, first, out>>

\* c = get_heat_curve_from_temp(db, c, opttemp)
GetHeatCurveFromTemp ==
    /\ pc = "get_heat_curve_from_temp"
    /\ IF NetatmoRaises(db, netatmo)
       THEN Raise("get_netatmo_token") /\ UNCHANGED <<c, db>>
       ELSE /\ c' = get_heat_curve_from_temp(c, opttemp,
                                             get_netatmo_temps(db, netatmo))
            /\ db' = DbAfterNetatmo(db, netatmo)
            /\ pc' = After("get_heat_curve_from_temp") /\ err' = err
    /\ UNCHANGED <<inputs, hc, run, apply, correct_temp, opttemp, read,
                   current_temp, writes, hc0, first, out>>

\* current_temp = get_current_water_temp(url)
GetCurrentWaterTemp ==
    /\ pc = "get_current_water_temp"
    /\ \/ /\ current_temp' = get_current_water_temp(hc)
          /\ pc' = After("get_current_water_temp") /\ err' = err
       \/ Raise("get_current_water_temp") /\ current_temp' = current_temp
    /\ UNCHANGED <<inputs, db, hc, run, apply, correct_temp, c, opttemp, read,
                   writes, hc0, first, out>>

\* set_curve: r = requests.get(alldata); hc = r.json()
SetCurve ==
    /\ pc = "set_curve"
    /\ \/ read' = hc /\ pc' = After("set_curve") /\ err' = err
       \/ Raise("set_curve") /\ read' = read
    /\ UNCHANGED <<inputs, db, hc, run, apply, correct_temp, c, opttemp,
                   current_temp, writes, hc0, first, out>>

\* set_curve: if hc["2205"] != c["curve"]: set idx 2205
Set2205 ==
    /\ pc = "set_2205"
    /\ \/ /\ ~NeedsSet(read.r2205, c.curve)
          /\ pc' = After("set_2205") /\ UNCHANGED <<hc, writes, err>>
       \/ /\ NeedsSet(read.r2205, c.curve)
          /\ hc' = [hc EXCEPT !.r2205 = c.curve]
          /\ writes' = Append(writes, SetRequest("2205", read.r2205, c.curve))
          /\ pc' = After("set_2205") /\ err' = err
       \/ /\ NeedsSet(read.r2205, c.curve)
          /\ Raise("set_2205") /\ UNCHANGED <<hc, writes>>
    /\ UNCHANGED <<inputs, db, run, apply, correct_temp, c, opttemp, read,
                   current_temp, hc0, first, out>>

\* set_curve: if hc["0207"] != c["parallel"]: set idx 0207
Set0207 ==
    /\ pc = "set_0207"
    /\ \/ /\ ~NeedsSet(read.r0207, c.parallel)
          /\ pc' = After("set_0207") /\ UNCHANGED <<hc, writes, err>>
       \/ /\ NeedsSet(read.r0207, c.parallel)
          /\ hc' = [hc EXCEPT !.r0207 = c.parallel]
          /\ writes' = Append(writes, SetRequest("0207", read.r0207, c.parallel))
          /\ pc' = After("set_0207") /\ err' = err
       \/ /\ NeedsSet(read.r0207, c.parallel)
          /\ Raise("set_0207") /\ UNCHANGED <<hc, writes>>
    /\ UNCHANGED <<inputs, db, run, apply, correct_temp, c, opttemp, read,
                   current_temp, hc0, first, out>>

\* if current_temp != correct_temp: set_water_temp(url, correct_temp)
Compare ==
    /\ pc = "compare"
    /\ pc' = IF current_temp # correct_temp THEN After("compare") ELSE "done"
    /\ UNCHANGED <<inputs, db, hc, run, apply, correct_temp, c, opttemp, read,
                   current_temp, writes, err, hc0, first, out>>

\* set_water_temp: r = requests.get(alldata); hc = r.json()
SetWaterTemp ==
    /\ pc = "set_water_temp"
    /\ \/ read' = hc /\ pc' = After("set_water_temp") /\ err' = err
       \/ Raise("set_water_temp") /\ read' = read
    /\ UNCHANGED <<inputs, db, hc, run, apply, correct_temp, c, opttemp,
                   current_temp, writes, hc0, first, out>>

\* set_water_temp: if hc["0208"] != desired: set idx 0208
Set0208 ==
    /\ pc = "set_0208"
    /\ LET desired == Desired0208(correct_temp)
       IN \/ /\ ~NeedsSet(read.r0208, desired)
             /\ pc' = After("set_0208") /\ UNCHANGED <<hc, writes, err>>
          \/ /\ NeedsSet(read.r0208, desired)
             /\ hc' = [hc EXCEPT !.r0208 = desired]
             /\ writes' = Append(writes, SetRequest("0208", read.r0208, desired))
             /\ pc' = After("set_0208") /\ err' = err
          \/ /\ NeedsSet(read.r0208, desired)
             /\ Raise("set_0208") /\ UNCHANGED <<hc, writes>>
    /\ UNCHANGED <<inputs, db, run, apply, correct_temp, c, opttemp, read,
                   current_temp, hc0, first, out>>

\* what is kept of a run that has ended
Outcome == [completed |-> pc = "done", apply |-> apply,
            correct_temp |-> correct_temp, c |-> c, writes |-> writes]

NoOutcome == [completed |-> FALSE, apply |-> FALSE, correct_temp |-> 0,
              c |-> HeatValues(0, 0), writes |-> <<>>]

\* the scheduler invokes the program again, nothing else having changed:
\* same configuration, prices, time and sensor; db and registers as left
NextRun ==
    /\ pc \in {"done", "aborted"}
    /\ run = 1
    /\ run' = 2
    /\ first' = Outcome
    /\ pc' = "get_config"
    /\ apply' = FALSE /\ correct_temp' = 0 /\ c' = HeatValues(0, 0)
    /\ opttemp' = 0 /\ read' = Registers(0, 0, 0) /\ current_temp' = 0
    /\ writes' = <<>> /\ err' = ""
    /\ hc0' = hc
    /\ UNCHANGED <<inputs, db, hc, out>>

Next ==
    \/ GetConfig
    \/ OverrideActive
    \/ GetWaterTemp
    \/ GetHeatCurve
    \/ GetOptTemp
    \/ GetHeatCurveFromTemp
    \/ GetCurrentWaterTemp
    \/ SetCurve
    \/ Set2205
    \/ Set0207
    \/ Compare
    \/ SetWaterTemp
    \/ Set0208
    \/ NextRun

----------------------------------------------------------------------------
(* The inputs of the runs *)

\* the longest override list
MaxOverrides == 2

\* the instants of the override entries: 5 is now
Instants == {5}

\* two entries active now (the second on both of its bounds), one whose
\* start does not parse, one that has not started
OverrideEntries ==
    {Override(0, 9, 4555, 237, -15), Override(5, 5, 6000, 300, 50),
     Override(Unparseable, 9, 5000, 250, 100), Override(6, 9, 3000, 200, 0)}

OverrideLists ==
    UNION {[1..n -> OverrideEntries] : n \in 0..MaxOverrides}

\* a configuration with a prep window, a no-need window on weekdays and a
\* temperature adjustment
RulesConfig ==
    [defaults EXCEPT !.prepww = <<Prep(11, 9, 1, 1)>>,
                     !.noneed = <<NoNeed(12, 14, {1, 2, 3, 4, 5})>>,
                     !.tempadjustments = <<TempAdjustment(0, 24, {1, 2, 3, 4, 5, 6, 7}, 5)>>]

\* a day with a low hour (2), a normal hour (3) and a high hour (10), and
\* a fetched series with no point of today
DaySeries == <<Price(2, TRUE, 35), Price(3, TRUE, 60), Price(10, TRUE, 90)>>

OtherDaySeries == <<Price(2, FALSE, 35)>>

\* 02:00, 10:30 and 21:00 (past bedtime - wwcooldown of the defaults)
Times == {120, 630, 1260}

\* the sensor: a fresh reading of 19.37 degrees, one aged an hour, none
Readings == {NATemps(TRUE, 1937, 60), NATemps(TRUE, 2100, 3600), NoData}

Services ==
    {[tokenOk |-> TRUE, dataOk |-> TRUE, natemps |-> r] : r \in Readings}
    \cup {[tokenOk |-> FALSE, dataOk |-> TRUE, natemps |-> NATemps(TRUE, 1937, 60)],
          [tokenOk |-> TRUE, dataOk |-> FALSE, natemps |-> NATemps(TRUE, 1937, 60)]}

\* the dbm file before the first run
Caches ==
    {[prices |-> FALSE, natemps |-> FALSE, natoken |-> "none"],
     [prices |-> TRUE, natemps |-> FALSE, natoken |-> "valid"],
     [prices |-> TRUE, natemps |-> FALSE, natoken |-> "expired"],
     [prices |-> TRUE, natemps |-> TRUE, natoken |-> "valid"]}

\* the registers before the first run
HcStates == {Registers(0, 0, 0), Registers(540, 25, 20), Registers(420, 22, 0)}

\* a run about to start
Start ==
    /\ pc = "get_config" /\ run = 1 /\ Fresh
    /\ hc0 = hc /\ first = NoOutcome /\ out = <<>>

Init ==
    /\ config \in {defaults, RulesConfig}
    /\ override \in {[present |-> FALSE, list |-> <<>>],
                     [present |-> TRUE, list |-> <<>>],
                     [present |-> TRUE, list |-> <<Override(0, 9, 4555, 237, -15)>>]}
    /\ all_prices \in {DaySeries, OtherDaySeries}
    /\ low_list = <<>>
    /\ t \in Times
    /\ dow \in {1}
    /\ now \in Instants
    /\ netatmo \in Services
    /\ db \in Caches
    /\ hc \in HcStates
    /\ Start

Spec == Init /\ [][Next]_vars

\* the runs over every override list, on fewer other inputs
InitOverride ==
    /\ config \in {defaults}
    /\ override \in {[present |-> TRUE, list |-> l] : l \in OverrideLists}
    /\ all_prices \in {DaySeries, OtherDaySeries}
    /\ low_list = <<>>
    /\ t \in {120, 1260}
    /\ dow \in {1}
    /\ now \in Instants
    /\ netatmo \in {[tokenOk |-> TRUE, dataOk |-> TRUE, natemps |-> NATemps(TRUE, 1937, 60)],
                    [tokenOk |-> FALSE, dataOk |-> TRUE, natemps |-> NoData]}
    /\ db \in {[prices |-> FALSE, natemps |-> FALSE, natoken |-> "none"]}
    /\ hc \in {Registers(0, 0, 0), Registers(455, 23, -1)}
    /\ Start

SpecOverride == InitOverride /\ [][Next]_vars

----------------------------------------------------------------------------
(* Claims about the runs *)

\* the run is past override_active, which returned
Resolved ==
    /\ pc \notin {"get_config", "override_active"}
    /\ err \notin {"get_config", "override_active"}

\* entry p parses and start <= now <= end
WellFormedActive(p) ==
    /\ p.start # Unparseable /\ p.end # Unparseable
    /\ p.start <= now /\ now <= p.end

\* the stages of ComputeFromRules and FeedbackAdjust, and their exceptions
ComputeStages ==
    {"get_water_temp", "get_heat_curve", "get_opttemp", "get_heat_curve_from_temp"}

ComputeErrors == {"get_prices", "filter_prices", "get_netatmo_token"}

\* C1: whenever a well-formed override entry has start <= now <= end, the
\* run's hot-water target and heating command are those of the first such
\* entry of the list (curve and para times ten, truncated), whatever the
\* prices, the time of day, the rules and the sensor; unparseable entries
\* are skipped, and the stages that compute from rules and the feedback
\* stage are never entered.
C1_OverridePrecedence ==
    (/\ Resolved
     /\ override.present
     /\ \E i \in 1..Len(override.list) : WellFormedActive(override.list[i]))
    => LET i == CHOOSE k \in 1..Len(override.list) :
                    /\ WellFormedActive(override.list[k])
                    /\ \A j \in 1..(k - 1) : ~WellFormedActive(override.list[j])
           p == override.list[i]
       IN /\ apply
          /\ correct_temp = p.wwtemp
          /\ c = HeatValues(Trunc(p.curve, 10), Trunc(p.para, 10))
          /\ pc \notin ComputeStages
          /\ err \notin ComputeErrors
          /\ opttemp = 0
          /\ pc = "done" =>
                /\ hc.r2205 = Trunc(p.curve, 10)
                /\ hc.r0207 = Trunc(p.para, 10)
                /\ hc.r0208 = Trunc(p.wwtemp, 10)

\* C1's case: a run ended having applied the second entry of a list whose
\* first entry does not parse, on a day whose prices alone would abort it
C1_Witness ==
    /\ pc = "done" /\ run = 1 /\ apply
    /\ Len(override.list) = 2
    /\ override.list[1].start = Unparseable
    /\ WellFormedActive(override.list[2])
    /\ correct_temp = override.list[2].wwtemp
    /\ all_prices = OtherDaySeries
    /\ Len(writes) = 3

\* the stages at which correct_temp and c are final
Computed ==
    pc \in {"get_current_water_temp", "set_curve", "set_2205", "set_0207",
            "compare", "set_water_temp", "set_0208", "done"}

\* C2: after a run that completed, a second run on the same inputs computes
\* the same hot-water target and heating command and sets no register; and
\* in every run a register is set only when the value read back differs
\* from the desired raw value.
C2_Idempotent ==
    /\ (run = 2 /\ first.completed) => writes = <<>>
    /\ (run = 2 /\ first.completed /\ Computed) =>
          /\ correct_temp = first.correct_temp
          /\ c = first.c
          /\ apply = first.apply
    /\ \A i \in 1..Len(writes) : writes[i].readback # writes[i].val

\* C2's case: the second run ended after a first run that set all three
\* registers from rule-computed values, and set none
C2_Witness ==
    /\ run = 2 /\ pc = "done" /\ writes = <<>>
    /\ first.completed /\ ~first.apply /\ Len(first.writes) = 3

\* the registers whose value at the start of the run is not the computed one
WouldChange ==
    {r \in {"2205", "0207", "0208"} :
        \/ r = "2205" /\ hc0.r2205 # c.curve
        \/ r = "0207" /\ hc0.r0207 # c.parallel
        \/ r = "0208" /\ hc0.r0208 # Desired0208(correct_temp)}

Written == {writes[i].idx : i \in 1..Len(writes)}

\* C3 as claimed: a run ended by a fatal error has set either none or all
\* of the registers it would change.
C3_AllOrNone ==
    pc = "aborted" => (Written = {} \/ Written = WouldChange)

\* the exceptions raised before the first set request can be issued
EarlyErrors ==
    {"get_config", "override_active", "get_prices", "filter_prices",
     "get_netatmo_token", "get_current_water_temp", "set_curve", "set_2205"}

\* C3, amended: a fatal error in the configuration fetch, the override
\* resolution, the price fetch, the price filters, the token refresh or
\* the controller reads of get_current_water_temp and set_curve leaves no
\* register set, all computation being complete before the first set
\* request; the registers are set one at a time in the order 2205, 0207,
\* 0208, and a later failure leaves set exactly those set before it: at
\* most 2205 when setting 0207 fails, at most 2205 and 0207 when the read
\* or the set request of set_water_temp fails.
C3_NoWriteBeforeFailure ==
    /\ err \in EarlyErrors => writes = <<>>
    /\ err = "set_0207" => Written \subseteq {"2205"}
    /\ err \in {"set_water_temp", "set_0208"} => Written \subseteq {"2205", "0207"}
    /\ writes # <<>> => Computed \/ err \in {"set_0207", "set_water_temp", "set_0208"}
    /\ \A i, j \in 1..Len(writes) :
          i < j => <<writes[i].idx, writes[j].idx>> \in
                      {<<"2205", "0207">>, <<"2205", "0208">>, <<"0207", "0208">>}

\* C3's case: the run was ended by the failure of the set request of 0207
\* after 2205 was set, with 0207 and 0208 both still to change
C3_Witness ==
    /\ pc = "aborted" /\ err = "set_0207"
    /\ Written = {"2205"}
    /\ WouldChange = {"2205", "0207", "0208"}

\* the sensor service failed in this run: no recent cache entry, and the
\* token refresh or the data request answers not ok
SensorFailed ==
    /\ ~db.natemps
    /\ \/ ~TokenFromCache(db) /\ ~netatmo.tokenOk
       \/ ~netatmo.dataOk

\* C4 as claimed: no failure of the sensor service ends the run, and after
\* one the heating command is the one get_heat_curve computed.
C4_SensorDegrades ==
    /\ err # "get_netatmo_token"
    /\ (pc = "get_current_water_temp" /\ ~apply /\ SensorFailed /\ run = 1)
       => c = get_heat_curve(config, all_prices, t)

\* no entry of the fetched document is active: it has no override list, or
\* the list is empty, or no entry of it matches now
NoActiveOverride ==
    \/ ~override.present
    \/ ~override_active(override.list, now)[1]

\* C12 as claimed: resolving the overrides never ends the run, and whenever
\* no entry is active (an empty list and a document without an override
\* list included) the resolver yields (false, 0, HeatValues(0, 0)) and the
\* run goes on to get_water_temp.
C12_NoOverrideNotFatal ==
    (/\ NoActiveOverride
     /\ pc \notin {"get_config", "override_active"}
     /\ err # "get_config") =>
        /\ err # "override_active"
        /\ ~apply
        /\ pc = "get_water_temp" => correct_temp = 0 /\ c = HeatValues(0, 0)

----------------------------------------------------------------------------
(* The functions on their own: each specification below draws the         *)
(* arguments of one function and applies it once (pc "input" to "output"). *)

\* the longest price series drawn
MaxPrices == 3

\* a negative price, zero, two cheap ones and one above every blockprice
PriceValues == {-5, 0, 10, 20, 200}

\* series of today's points at the hours 0, 1, ..., in time order
DayPriceSeries ==
    UNION {{[i \in 1..n |-> Price(i - 1, TRUE, f[i])] : f \in [1..n -> PriceValues]} :
           n \in 1..MaxPrices}

ClassifyConfigs ==
    {[defaults EXCEPT !.cutter = cu, !.maxdiff = md, !.lowprice = lp,
                      !.highprice = hp, !.blockprice = bp] :
        cu \in {0, 60}, md \in {0, 50}, lp \in {0, 35}, hp \in {5, 80},
        bp \in {5, 150}}

\* the variables a function specification does not use
Idle ==
    /\ run = 1 /\ Fresh /\ hc = Registers(0, 0, 0) /\ hc0 = hc
    /\ first = NoOutcome /\ out = <<>>
    /\ db = [prices |-> TRUE, natemps |-> TRUE, natoken |-> "valid"]

InitClassify ==
    /\ config \in ClassifyConfigs
    /\ override = [present |-> TRUE, list |-> <<>>]
    /\ all_prices \in DayPriceSeries
    /\ low_list = <<>>
    /\ t = 0 /\ dow = 1 /\ now \in Instants
    /\ netatmo = [tokenOk |-> TRUE, dataOk |-> TRUE, natemps |-> NoData]
    /\ pc = "input"
    /\ Idle

\* PriceClassifier: both filters on today's series
Classify ==
    /\ pc = "input"
    /\ out' = [low |-> filter_prices_low(TodayPrices(all_prices, config), config),
               high |-> filter_prices_high(TodayPrices(all_prices, config), config)]
    /\ pc' = "output"
    /\ UNCHANGED <<inputs, db, hc, run, apply, correct_temp, c, opttemp, read,
                   current_temp, writes, err, hc0, first>>

SpecClassify == InitClassify /\ [][Classify]_vars

\* the minimum of the series, and the two cutpoints (times 1000)
MinPrice == Min({all_prices[i].value : i \in 1..Len(all_prices)})

InBoth == Range(out.low) \cap Range(out.high)

\* C5 as claimed: with cutter >= 0 and maxdiff >= 0 no point is in both
\* lowHours and highHours, whatever lowprice, highprice and blockprice.
C5_Disjoint ==
    (pc = "output" /\ config.cutter >= 0 /\ config.maxdiff >= 0) => InBoth = {}

\* lowprice does not exceed the high cutpoint and highprice is not below
\* the low cutpoint (a negative minimum: lowprice does not exceed maxdiff)
CutpointsOrdered ==
    IF MinPrice < 0 THEN config.lowprice <= config.maxdiff
    ELSE /\ 1000 * config.lowprice <= HighCutpoint(MinPrice, config)
         /\ 1000 * config.highprice >= LowCutpoint(MinPrice, config)

\* C5, amended: with cutter >= 0 and maxdiff >= 0, lowHours and highHours
\* are disjoint provided lowprice does not exceed the high cutpoint and
\* highprice is not below the low cutpoint; in general the points in both
\* are exactly those above the high cutpoint that are below the low
\* cutpoint or below lowprice.
C5_DisjointWhenOrdered ==
    (pc = "output" /\ config.cutter >= 0 /\ config.maxdiff >= 0) =>
       /\ CutpointsOrdered => InBoth = {}
       /\ \A x \in Range(all_prices) :
             x \in InBoth <=>
                /\ 1000 * x.value > HighCutpoint(MinPrice, config)
                /\ \/ 1000 * x.value < LowCutpoint(MinPrice, config)
                   \/ x.value < config.lowprice

\* C5's case: the default thresholds on a day with a low and a high point
C5_Witness ==
    /\ pc = "output" /\ CutpointsOrdered
    /\ config.lowprice = Default_lowprice /\ config.highprice = Default_highprice
    /\ config.cutter = Default_cutter /\ config.maxdiff = Default_maxdiff
    /\ out.low # <<>> /\ out.high # <<>>
    /\ InBoth = {}

MinPoints == {x \in Range(all_prices) : x.value = MinPrice}

\* C6 as claimed: with cutter > 0 and maxdiff > 0 the minimum-priced point
\* is in lowHours, whatever lowprice and blockprice and the sign of the
\* minimum.
C6_MinimumIsLow ==
    (pc = "output" /\ config.cutter > 0 /\ config.maxdiff > 0) =>
       MinPoints \subseteq Range(out.low)

\* C6, amended: with cutter > 0 and maxdiff > 0 the minimum-priced point is
\* in lowHours exactly when the minimum is negative, or below lowprice, or
\* positive and below blockprice.
C6_MinimumIsLowWhen ==
    (pc = "output" /\ config.cutter > 0 /\ config.maxdiff > 0) =>
       \A x \in MinPoints :
          x \in Range(out.low) <=>
             \/ MinPrice < 0
             \/ MinPrice < config.lowprice
             \/ MinPrice > 0 /\ MinPrice < config.blockprice

\* C6's case: a positive minimum, not below lowprice, low by the cutpoint
C6_Witness ==
    /\ pc = "output" /\ config.cutter > 0 /\ config.maxdiff > 0
    /\ MinPrice > 0 /\ MinPrice >= config.lowprice
    /\ Len(all_prices) > 1
    /\ MinPoints \subseteq Range(out.low)

----------------------------------------------------------------------------
(* PrepPlanner on its own *)

\* points at the hours 5, 6 and 7, of today or of another day, below and
\* above the default blockprice
PrepPoints ==
    {Price(h, d, v) : h \in {5, 6, 7}, d \in BOOLEAN, v \in {100, 200}}

PrepSeries == UNION {[1..n -> PrepPoints] : n \in 0..(MaxPrices - 1)}

\* need at 7 for an hour, from 2 on, one hour of preptime; and a window
\* from 6 on with two hours of preptime
PrepWindows == {Prep(7, 2, 1, 1), Prep(7, 6, 0, 2)}

\* 01:00, 05:00, 05:30, 06:30, 07:00, 07:30, 08:00, 08:30
PrepTimes == {60, 300, 330, 390, 420, 450, 480, 510}

InitPrep ==
    /\ config \in {[defaults EXCEPT !.prepww = <<w>>] : w \in PrepWindows}
    /\ override = [present |-> TRUE, list |-> <<>>]
    /\ all_prices \in PrepSeries
    /\ low_list \in {<<>>, SortByValue(TodayPrices(all_prices, config))}
    /\ t \in PrepTimes
    /\ dow = 1 /\ now \in Instants
    /\ netatmo = [tokenOk |-> TRUE, dataOk |-> TRUE, natemps |-> NoData]
    /\ pc = "input"
    /\ Idle

\* water_prep_needed(low_list, all_prices, config=config, **config["prepww"][0])
PrepNeeded ==
    /\ pc = "input"
    /\ LET w == config.prepww[1]
       IN out' = water_prep_needed(low_list, all_prices, w.needhour, w.earliest,
                                   w.duration, w.preptime, config, t)
    /\ pc' = "output"
    /\ UNCHANGED <<inputs, db, hc, run, apply, correct_temp, c, opttemp, read,
                   current_temp, writes, err, hc0, first>>

SpecPrep == InitPrep /\ [][PrepNeeded]_vars

\* today's price at the current integer hour exceeds blockprice
BlockedToday ==
    \E x \in Range(all_prices) :
        x.today /\ x.hour = IntHour(t) /\ x.value > config.blockprice

\* no low-price hour has its integer hour in [int(t), needhour)
NoLowBefore(w) ==
    ~\E x \in Range(low_list) : x.hour >= IntHour(t) /\ x.hour < w.needhour

\* C7 as claimed: the decision of water_prep_needed outside its window, in
\* the guaranteed window, and before needhour when no low hour remains:
\* (false, false) past the window or before earliest; (true, h) from
\* needhour to needhour + duration, h false exactly when today's price of
\* the current hour exceeds blockprice; with no low hour left before
\* needhour, (true, h) once t >= needhour - preptime and (true, false)
\* before that.
C7_PrepDecision ==
    pc = "output" =>
       LET w == config.prepww[1]
           h == ~BlockedToday
       IN IF t > 60 * (w.needhour + w.duration) \/ t < 60 * w.earliest
          THEN out = <<FALSE, FALSE>>
          ELSE IF t >= 60 * w.needhour
          THEN out = <<TRUE, h>>
          ELSE IF NoLowBefore(w)
          THEN (IF t >= 60 * (w.needhour - w.preptime)
                THEN out = <<TRUE, h>>
                ELSE out = <<TRUE, FALSE>>)
          ELSE TRUE

----------------------------------------------------------------------------
(* get_water_temp on its own *)

\* the longest list of prep windows drawn
MaxPrep == 2

\* a window with need at 11 from 1 on, with and without an hour of
\* preptime; one with need at 3; one past by 02:00
WaterPreps ==
    {Prep(11, 1, 1, 1), Prep(11, 1, 1, 0), Prep(3, 0, 1, 1), Prep(0, 0, 1, 0)}

PrepLists == UNION {[1..n -> WaterPreps] : n \in 0..MaxPrep}

\* low hours 2 and 4, a normal hour 3, a high hour 10; the same day with a
\* normal hour 10 priced 60 and no hour 4; and a day whose hour 3 is blocked
WaterSeries ==
    {<<Price(2, TRUE, 35), Price(3, TRUE, 60), Price(4, TRUE, 50), Price(10, TRUE, 90)>>,
     <<Price(0, TRUE, 50), Price(1, TRUE, 40), Price(2, TRUE, 35), Price(10, TRUE, 60),
       Price(23, TRUE, 90)>>,
     <<Price(2, TRUE, 35), Price(3, TRUE, 200), Price(3, FALSE, 20), Price(10, TRUE, 60)>>}

\* 02:00, 03:00, 04:30, 10:00, 19:59, 20:00, 21:00
WaterTimes == {120, 180, 270, 600, 1199, 1200, 1260}

InitWater ==
    /\ config \in {[defaults EXCEPT !.prepww = pw, !.noneed = nn] :
                      pw \in PrepLists,
                      nn \in {<<>>, <<NoNeed(12, 14, {6, 7}), NoNeed(2, 3, {1, 2, 3, 4, 5})>>}}
    /\ override = [present |-> TRUE, list |-> <<>>]
    /\ all_prices \in WaterSeries
    /\ low_list = <<>>
    /\ t \in WaterTimes
    /\ dow \in {1, 6}
    /\ now \in Instants
    /\ netatmo = [tokenOk |-> TRUE, dataOk |-> TRUE, natemps |-> NoData]
    /\ pc = "input"
    /\ Idle

\* get_water_temp(db, config), the prices being in db
WaterTemp ==
    /\ pc = "input"
    /\ out' = get_water_temp(config, all_prices, t, dow)
    /\ pc' = "output"
    /\ UNCHANGED <<inputs, db, hc, run, apply, correct_temp, c, opttemp, read,
                   current_temp, writes, err, hc0, first>>

SpecWater == InitWater /\ [][WaterTemp]_vars

\* the (authoritative, heat) of prep window i now
PrepResult(i) ==
    LET w == config.prepww[i]
    IN water_prep_needed(SortByValue(TodayPrices(all_prices, config)), all_prices,
                         w.needhour, w.earliest, w.duration, w.preptime, config, t)

AnyNoNeed ==
    \E i \in 1..Len(config.noneed) :
        /\ dow \in config.noneed[i].weekdays
        /\ 60 * config.noneed[i].start <= t /\ t <= 60 * config.noneed[i].end

AnyPrepHeats == \E i \in 1..Len(config.prepww) : PrepResult(i) = <<TRUE, TRUE>>

LowNow ==
    \E x \in Range(filter_prices_low(TodayPrices(all_prices, config), config)) :
        x.hour = IntHour(t)

HighNow ==
    \E x \in Range(filter_prices_high(TodayPrices(all_prices, config), config)) :
        x.hour = IntHour(t)

\* The rules of C8: get_water_temp returns the value of the first
\* applicable rule in the order: (1) t >= bedtime - wwcooldown, the
\* do-not-heat sentinel; (2) an active no-need window, wwexpensivetemp;
\* (3) a prep window that says heat, wwcheaptemp; (4) wwcheaptemp in a low
\* hour, else wwexpensivetemp in a high hour, else wwdefaulttemp.
C8_Rules ==
    pc = "output" =>
       out = IF t >= 60 * (config.bedtime - config.wwcooldown) THEN NoHeat
             ELSE IF AnyNoNeed THEN config.wwexpensivetemp
             ELSE IF AnyPrepHeats THEN config.wwcheaptemp
             ELSE IF LowNow THEN config.wwcheaptemp
             ELSE IF HighNow THEN config.wwexpensivetemp
             ELSE config.wwdefaulttemp

C8_Example ==
    (/\ pc = "output" /\ config = defaults
     /\ Price(2, TRUE, 35) \in Range(all_prices)
     /\ Price(10, TRUE, 60) \in Range(all_prices))
    => /\ t = 120 => out = Default_wwcheaptemp
       /\ t = 600 => out = Default_wwdefaulttemp

FirstAuthSaysNo ==
    \E i \in 1..Len(config.prepww) :
        /\ PrepResult(i) = <<TRUE, FALSE>>
        /\ \A j \in 1..(i - 1) : ~PrepResult(j)[1]

\* the prep rule is the one that decides: not past bedtime, no no-need
\* window active
PrepRuleReached == ~PastBedtime(config, t) /\ ~AnyNoNeed

\* C10 as claimed: if the first authoritative prep window says (true,
\* false), no later window is consulted and the prep rule does not return
\* wwcheaptemp (in an hour that is not low, the result is not wwcheaptemp).
C10_FirstAuthDecides ==
    (pc = "output" /\ PrepRuleReached /\ FirstAuthSaysNo /\ ~LowNow)
    => out # config.wwcheaptemp

\* C10, amended: the prep windows are evaluated in list order and the
\* first window whose result is (true, true) decides the prep step, giving
\* wwcheaptemp; a window whose result is (true, false) does not end the
\* loop, and a later window whose result is (true, true) still gives
\* wwcheaptemp; when no window says (true, true) the price rules decide.
C10_FirstHeatDecides ==
    (pc = "output" /\ PrepRuleReached) =>
       /\ AnyPrepHeats => out = config.wwcheaptemp
       /\ (~AnyPrepHeats /\ ~LowNow) => out # config.wwcheaptemp

\* C10's case: the first window says (true, false), the second (true,
\* true), the hour is not low and the result is wwcheaptemp
C10_Witness ==
    /\ pc = "output" /\ PrepRuleReached /\ ~LowNow
    /\ Len(config.prepww) >= 2
    /\ PrepResult(1) = <<TRUE, FALSE>>
    /\ PrepResult(2) = <<TRUE, TRUE>>
    /\ out = config.wwcheaptemp

\* the hours PriceClassifier put in lowHours whose integer hour lies in
\* [int(t), needhour) of window w, cheapest first
LowBefore(w) ==
    SelectSeq(filter_prices_low(TodayPrices(all_prices, config), config),
              LAMBDA x : x.hour >= IntHour(t) /\ x.hour < w.needhour)

\* the list water_prep_needed filters out of the argument get_water_temp
\* gives it for window w
EarlierOfCall(w) ==
    earlierprices(SortByValue(TodayPrices(all_prices, config)), w.needhour, t)

\* window w is in its anticipatory part: earliest <= t < needhour
Anticipating(w) ==
    /\ 60 * w.earliest <= t /\ t < 60 * w.needhour
    /\ t <= 60 * (w.needhour + w.duration)

\* C11 as claimed: for a prep window with earliest <= t < needhour,
\* earlierLow holds only low-classified hours of [int(t), needhour); with
\* no such hour the preptime branch decides (before needhour - preptime:
\* (true, false)), and with one the result is (true, true) only when the
\* current hour is the first, cheapest, low-classified hour remaining, and
\* (true, false) otherwise.
C11_LowHoursOnly ==
    pc = "output" =>
       \A i \in 1..Len(config.prepww) :
          LET w == config.prepww[i]
              low == LowBefore(w)
          IN Anticipating(w) =>
                /\ EarlierOfCall(w) = low
                /\ (low = <<>> /\ t < 60 * (w.needhour - w.preptime))
                      => PrepResult(i) = <<TRUE, FALSE>>
                /\ low # <<>> =>
                      PrepResult(i) = <<TRUE, low[1].hour = IntHour(t)>>

----------------------------------------------------------------------------
(* FeedbackCorrector on its own *)

\* optimal temperatures 19.0, 19.8, 20.0, 20.5, 21.0, 21.5
OptTemps == {190, 198, 200, 205, 210, 215}

\* readings that are whole tenths of a degree, and their ages in seconds
FeedbackReadings ==
    {NATemps(TRUE, temp, age) : temp \in {1900, 1980, 2050, 2110},
                                age \in {0, 3599, 3600, 7200}}
    \cup {NoData}

InitFeedback ==
    /\ config = defaults
    /\ override = [present |-> TRUE, list |-> <<>>]
    /\ all_prices = DaySeries
    /\ low_list = <<>>
    /\ t = 0 /\ dow = 1 /\ now \in Instants
    /\ netatmo \in {[tokenOk |-> TRUE, dataOk |-> TRUE, natemps |-> r] :
                       r \in FeedbackReadings}
    /\ pc = "input" /\ run = 1
    /\ apply = FALSE /\ correct_temp = 0
    /\ c \in {HeatValues(22, 0), HeatValues(25, 20), HeatValues(18, -40)}
    /\ opttemp \in OptTemps
    /\ read = Registers(0, 0, 0) /\ current_temp = 0 /\ writes = <<>> /\ err = ""
    /\ hc = Registers(0, 0, 0) /\ hc0 = hc
    /\ first = NoOutcome /\ out = <<>>
    /\ db = [prices |-> TRUE, natemps |-> TRUE, natoken |-> "valid"]

\* get_heat_curve_from_temp(db, c, opttemp), the readings being in db
Feedback ==
    /\ pc = "input"
    /\ out' = get_heat_curve_from_temp(c, opttemp, get_netatmo_temps(db, netatmo))
    /\ pc' = "output"
    /\ UNCHANGED <<inputs, db, hc, run, apply, correct_temp, c, opttemp, read,
                   current_temp, writes, err, hc0, first>>

SpecFeedback == InitFeedback /\ [][Feedback]_vars

\* C9 as claimed: without a reading, or with one aged 3600 s or more, the
\* command is returned unchanged; otherwise curve = prior curve +
\* int(10 * (opttemp - reading)) and parallel = int((opttemp - 20) * 10),
\* for opttemp and reading whole tenths of a degree.
C9_Feedback ==
    pc = "output" =>
       LET r == netatmo.natemps
       IN IF ~r.uppe \/ r.age >= 3600 THEN out = c
          ELSE /\ out.curve = c.curve + (10 * opttemp - r.temperature) \div 10
               /\ out.parallel = opttemp - 200

====
